---- MODULE Spec2Model ----
(***************************************************************************)
(* Model of AudioCaptureAlert.py: the silence monitor that OBS drives      *)
(* through script_load / script_update / script_unload, the event_loop     *)
(* timer callback, the frontend event callback and the volmeter callback.  *)
(*                                                                         *)
(* The G.* fields of the script are the variables of the same name.  The   *)
(* host (OBS) is modelled by the variables timers, meters, recording,      *)
(* streaming, visible and inflight.  Variables starting with h_ are        *)
(* history variables: they record what happened and never feed back into   *)
(* the program.                                                            *)
(***************************************************************************)
EXTENDS Integers, Sequences, FiniteSets, TLC

VARIABLES
    phase,                       \* "new" | "loaded" | "unloaded" | "crashed"
    lock,                        \* G.lock
    duration,                    \* G.duration
    noise,                       \* G.noise
    tick,                        \* G.tick (milliseconds)
    volmeter,                    \* G.volmeter: 0 = None / NULL, k = handle of meters[k]
    silence_duration,            \* G.silence_duration
    silence_threshold,           \* G.silence_threshold
    plugin_enabled,              \* G.plugin_enabled
    enable_only_active,          \* G.enable_only_active
    enable_windows_notification, \* G.enable_windows_notification
    notification_sent,           \* G.notification_sent
    enable_obs_source,           \* G.enable_obs_source
    prev_output_active,          \* G.prev_output_active
    image_source_name,           \* G.image_source_name
    media_source_name,           \* G.media_source_name
    video_source_name,           \* G.video_source_name
    timers,                      \* host: intervals of the timers registered for event_loop
    meters,                      \* host: every volmeter created so far
    recording,                   \* host: obs_frontend_recording_active()
    streaming,                   \* host: obs_frontend_streaming_active()
    visible,                     \* host: visible flag of every scene item
    inflight,                    \* host: notification threads still running
    h_epDisp,                    \* dispatches in the current silence episode
    h_rsDisp,                    \* dispatches since the one-shot flag was last cleared
    h_tickDur,                   \* silence_duration left by the latest tick if it found silence; -2 if it found sound, -1 if it evaluated nothing
    h_cmp,                       \* the two latest ticks both found silence and the counter went "up", "same" or "down"; else "none"
    h_brk,                       \* the counter was reset between the two latest ticks, or by an edge on the latest
    h_suppTicks,                 \* ticks so far (capped), all run with only-active set and the host inactive; -1 once one was not
    h_scen,                      \* ticks of the sample scenario matched since enabling, -1 if off
    h_edge,                      \* the latest transition of the active flag under "only while active": "none", "clean" (nothing to reset), "reset", "stale" (not reset yet), "counted" (a tick began before the reset)
    h_mid,                       \* an update switched "only while active" on while silence was accumulating
    h_fail,                      \* "failed": a dispatch failed with the one-shot flag set and no reset since; then "kept": a silent tick ran and dispatched nothing, or "retried": a tick dispatched again; else "none"
    h_failListed,                \* as h_fail, when only sound, a change of the active flag and an update count as a reset
    h_out,                       \* how the latest step ended if it was a tick (see TickOutcome), else "none"
    h_lookup,                    \* "found" or "missing": what obs_get_source_by_name answered if the latest step was a tick that called it, else "none"
    h_nosrc,                     \* ticks so far that did not find the microphone source (capped)
    h_reads,                     \* <<r1, r2, silent, G.noise when the tick began>> of the latest tick that evaluated the level, else <<>>
    h_tickHandles,               \* <<acquired, released>>: source handles of the latest tick
    h_handles,                   \* source handles acquired and not released yet
    h_pend,                      \* what ticks have done while a notification thread was running: a subset of {"accumulate", "reset", "dispatch"}
    h_call,                      \* the latest set_visible_all call made on its own: <<source name, v, visible before the call>>, else <<>>
    h_watch                      \* which of the histories above this run records

progVars == <<phase, lock, duration, noise, tick, volmeter, silence_duration,
              silence_threshold, plugin_enabled, enable_only_active,
              enable_windows_notification, notification_sent, enable_obs_source,
              prev_output_active, image_source_name, media_source_name,
              video_source_name>>
hostVars == <<timers, meters, recording, streaming, visible, inflight>>
histVars == <<h_epDisp, h_rsDisp, h_tickDur, h_cmp, h_brk, h_suppTicks,
              h_scen, h_watch>>
traceVars == <<h_edge, h_mid, h_fail, h_failListed, h_nosrc, h_reads,
               h_tickHandles, h_handles, h_pend, h_call>>
tickVars == <<h_out, h_lookup>>
vars == <<progVars, hostVars, histVars, traceVars, tickVars>>

----------------------------------------------------------------------------
(* Bounds of the model.                                                    *)

MaxDur == 40          \* silence_duration is explored up to this many seconds
MaxMeters == 2        \* volmeters the host creates in one run
MaxInflight == 1      \* notification threads running at once

(* Floats: the levels are whole decibels; the two infinities are encoded   *)
(* below and above every finite level so that <= orders them as IEEE does. *)
NegInf == -1000
PosInf == 1000
IsInf(x) == x = NegInf \/ x = PosInf

(* Program constants.                                                      *)
start_delay == 1
tick_mili == 10
silence_db_threshold == -60

(* Levels the volmeter delivers.                                           *)
Noise == {NegInf, -61, -10, PosInf}

(* The sample scenario: one level per tick.                                *)
Scenario == <<-80, -70, -65, -61, -10>>
ScenarioNoise == {Scenario[i] : i \in DOMAIN Scenario}

(* The scene collection of the host: <<scene, source name>> items.         *)
SceneItems == {<<1, "Alert">>, <<1, "Cam">>, <<2, "Cam">>, <<3, "Alert">>}

(* The visible flags of its items when the script is loaded.               *)
SceneCollection ==
    [it \in SceneItems |-> it \in {<<1, "Cam">>, <<2, "Cam">>, <<3, "Alert">>}]

(* Every scene collection made of some of these items, with any flags;     *)
(* the source names a caller may pass, one of them in no scene.            *)
SceneCollections == UNION {[S -> BOOLEAN] : S \in SUBSET SceneItems}
SourceNames == {"Alert", "Cam", "Ghost"}

(* A combined_source setting is a prefix and the text after it.            *)
NoCombined == [prefix |-> "", rest |-> ""]
ImageAlert == [prefix |-> "image:", rest |-> "Alert"]

(* The settings objects handed to script_update: an absent int reads 0.    *)
SettingsOf(combined, obs_source, intervals, thresholds, notification) ==
    [combined_source : combined,
     tick_interval : intervals,
     silence_threshold : thresholds,
     enable_windows_notification : notification,
     enable_obs_source : obs_source,
     plugin_enabled : BOOLEAN,
     enable_only_active : BOOLEAN]

Settings ==
    SettingsOf({NoCombined}, {FALSE}, {0}, {0, 10}, BOOLEAN)
    \cup SettingsOf({NoCombined}, {FALSE}, {5}, {10}, BOOLEAN)

(* Settings for the visual alert: polled every 5 s, 10 s of silence.       *)
VisualSettings == SettingsOf({NoCombined, ImageAlert}, BOOLEAN, {5}, {10}, {TRUE})

Events == {"RECORDING_STARTED", "RECORDING_STOPPED",
           "STREAMING_STARTED", "STREAMING_STOPPED", "SCENE_CHANGED"}

Min(a, b) == IF a <= b THEN a ELSE b

(* Notification threads a run lets overlap: one more where the run watches *)
(* what happens while a thread is running.                                 *)
PendingCap == IF "pending" \in h_watch THEN MaxInflight + 1 ELSE MaxInflight

----------------------------------------------------------------------------
(* Pieces of event_loop.                                                   *)

\* line 173
OutputActive == streaming \/ recording

\* line 176: the active flag differs from the one seen by the previous tick
OutputEdge == enable_only_active /\ prev_output_active # OutputActive

\* lines 172, 187: the tick returns because the host is not active
InactiveReturn_never(only_active, output_active) == FALSE
InactiveReturn(only_active, output_active) == only_active /\ ~output_active

\* line 194
PastStartDelay(d) == d > start_delay

\* line 219: the two reads of G.noise
IsSilent(r1, r2) == r1 <= silence_db_threshold \/ IsInf(r2)

\* line 220
Accumulate_assign(d, t) == t \div 1000
Accumulate(d, t) == d + t \div 1000

\* line 238
SoundReset_keep(d) == d
SoundReset(d) == 0

\* line 221
AtThreshold_strict(d, t) == d > t
AtThreshold(d, t) == d >= t

\* line 226
ShouldNotify_always(enabled, sent) == enabled
ShouldNotify(enabled, sent) == enabled /\ ~sent

\* lines 131-133: the thread is started and never joined
JoinsThread_running(pending) == pending > 0
JoinsThread(pending) == FALSE

\* line 247
AlertSourceName ==
    IF image_source_name # "" THEN image_source_name
    ELSE IF media_source_name # "" THEN media_source_name
    ELSE video_source_name

\* lines 139-164: every item of the source, in every scene, gets the flag
set_visible_all_firstScene(source_name, v, vis) ==
    [it \in DOMAIN vis |->
        IF it[2] = source_name
           /\ \A other \in DOMAIN vis : other[2] = source_name => it[1] <= other[1]
        THEN v ELSE vis[it]]
set_visible_all(source_name, v, vis) ==
    [it \in DOMAIN vis |-> IF it[2] = source_name THEN v ELSE vis[it]]

\* lines 245-256
enable_source(enable, vis) ==
    IF AlertSourceName = "" THEN vis
    ELSE set_visible_all(AlertSourceName, enable, vis)

\* line 199
SourceMissing_ignored(found) == FALSE
SourceMissing(found) == ~found

\* lines 205, 209, 216: g_obs_source_release calls on the way out of the
\* attach branch
SourceReleases_attachedOnly(out) == IF out = "eval" THEN 1 ELSE 0
SourceReleases(out) ==
    IF out \in {"createfail", "attachfail", "eval"} THEN 1 ELSE 0

\* obs_volmeter_create / add_callback / attach_source / destroy on the host
NewMeter_leaked(attached) ==
    [cb |-> TRUE, att |-> attached, destroys |-> 0]
NewMeter(attached) ==
    [cb |-> attached, att |-> attached, destroys |-> IF attached THEN 0 ELSE 1]
DestroyMeter(m) ==
    [cb |-> FALSE, att |-> FALSE, destroys |-> Min(m.destroys + 1, 2)]

\* How a tick ends.
TickOutcome(found, created, attach_ok) ==
    IF InactiveReturn(enable_only_active, OutputActive) THEN "inactive"
    ELSE IF ~PastStartDelay(duration) THEN "startup"
    ELSE IF lock THEN "eval"
    ELSE IF SourceMissing(found) THEN "nosource"
    ELSE IF ~created THEN "createfail"
    ELSE IF ~attach_ok THEN "attachfail"
    ELSE "eval"

----------------------------------------------------------------------------
(* The state after the module body of the script has run (lines 59-87).    *)

InitWith(histories, collections) ==
    /\ phase = "new"
    /\ lock = FALSE
    /\ duration = 0
    /\ noise = NegInf
    /\ tick = 10000
    /\ volmeter = 0
    /\ silence_duration = 0
    /\ silence_threshold = 60
    /\ plugin_enabled = FALSE
    /\ enable_only_active = FALSE
    /\ enable_windows_notification = TRUE
    /\ notification_sent = FALSE
    /\ enable_obs_source = FALSE
    /\ prev_output_active = FALSE
    /\ image_source_name = ""
    /\ media_source_name = ""
    /\ video_source_name = ""
    /\ timers = <<>>
    /\ meters = <<>>
    /\ recording \in BOOLEAN
    /\ streaming \in BOOLEAN
    /\ visible \in collections
    /\ inflight = 0
    /\ h_epDisp = 0
    /\ h_rsDisp = 0
    /\ h_tickDur = -1
    /\ h_cmp = "none"
    /\ h_brk = FALSE
    /\ h_suppTicks = 0
    /\ h_scen = -1
    /\ h_edge = "none"
    /\ h_mid = FALSE
    /\ h_fail = "none"
    /\ h_failListed = "none"
    /\ h_out = "none"
    /\ h_lookup = "none"
    /\ h_nosrc = 0
    /\ h_reads = <<>>
    /\ h_tickHandles = <<0, 0>>
    /\ h_handles = 0
    /\ h_pend = {}
    /\ h_call = <<>>
    /\ h_watch = histories

InitWatching(histories) == InitWith(histories, {SceneCollection})

Init == InitWatching({})

\* a step that is not a tick
NotATick == h_out' = "none" /\ h_lookup' = "none"

----------------------------------------------------------------------------
(* script_load: the host calls it once, before the first script_update.    *)

script_load ==
    /\ phase = "new"
    /\ phase' = "loaded"
    /\ UNCHANGED <<lock, duration, noise, tick, volmeter, silence_duration,
                   silence_threshold, plugin_enabled, enable_only_active,
                   enable_windows_notification, notification_sent,
                   enable_obs_source, prev_output_active, image_source_name,
                   media_source_name, video_source_name>>
    /\ UNCHANGED hostVars
    /\ UNCHANGED histVars
    /\ UNCHANGED traceVars
    /\ NotATick

----------------------------------------------------------------------------
(* script_update.                                                          *)

\* python's "x or d" on an int
OrDefault(x, d) == IF x = 0 THEN d ELSE x

\* line 410
FlagsChanged_onlyActive(prev_enabled, prev_only_active, enabled, only_active) ==
    prev_only_active # only_active
FlagsChanged(prev_enabled, prev_only_active, enabled, only_active) ==
    prev_enabled # enabled \/ prev_only_active # only_active

\* lines 410, 419: the update clears the counter and the one-shot flag
UpdateResets_onlyChanged(changed, enabled) == changed
UpdateResets(changed, enabled) == changed \/ enabled

\* obs.timer_remove(event_loop): the host drops the callback it finds first
timer_remove_noop(ts) == ts
timer_remove(ts) == IF ts = <<>> THEN ts ELSE Tail(ts)

\* obs.timer_add(event_loop, ms)
timer_add(ts, ms) == Append(ts, ms)

\* The settings of the sample scenario: 30 s of silence, polled every 10 s,
\* with the notification on.
ScenarioSettings(s) ==
    /\ s.plugin_enabled
    /\ s.enable_windows_notification
    /\ OrDefault(s.tick_interval, 10) = 10
    /\ OrDefault(s.silence_threshold, 30) = 30

script_update(s) ==
    LET changed == FlagsChanged(plugin_enabled, enable_only_active,
                                s.plugin_enabled, s.enable_only_active)
        reset == UpdateResets(changed, s.plugin_enabled)
        new_tick == OrDefault(s.tick_interval, 10) * 1000
        removed == timer_remove(timers)
        name(prefix) == IF s.combined_source.prefix = prefix
                        THEN s.combined_source.rest ELSE ""
    IN
    /\ phase = "loaded"
    /\ image_source_name' = name("image:")
    /\ media_source_name' = name("media:")
    /\ video_source_name' = name("video:")
    /\ tick' = new_tick
    /\ silence_threshold' = OrDefault(s.silence_threshold, 30)
    /\ enable_windows_notification' = s.enable_windows_notification
    /\ enable_obs_source' = s.enable_obs_source
    /\ plugin_enabled' = s.plugin_enabled
    /\ enable_only_active' = s.enable_only_active
    /\ silence_duration' = IF reset THEN 0 ELSE silence_duration
    /\ notification_sent' = IF reset THEN FALSE ELSE notification_sent
    /\ prev_output_active' = IF s.plugin_enabled THEN FALSE ELSE prev_output_active
    /\ timers' = IF s.plugin_enabled THEN timer_add(removed, new_tick) ELSE removed
    /\ UNCHANGED <<phase, lock, duration, noise, volmeter>>
    /\ UNCHANGED <<meters, recording, streaming, visible, inflight>>
    /\ h_rsDisp' = IF reset THEN 0 ELSE h_rsDisp
    /\ h_scen' = IF "scenario" \notin h_watch THEN h_scen
                 ELSE IF ScenarioSettings(s) THEN 0 ELSE -1
    /\ UNCHANGED <<h_epDisp, h_tickDur, h_cmp, h_brk, h_suppTicks, h_watch>>
    /\ h_edge' = IF ~s.enable_only_active THEN "none"
                 ELSE IF h_edge = "stale" /\ reset THEN "clean" ELSE h_edge
    /\ h_mid' = IF "edge" \notin h_watch \/ ~s.enable_only_active THEN FALSE
                ELSE h_mid \/ (~enable_only_active /\ silence_duration > 0)
    /\ h_fail' = IF reset /\ h_fail # "retried" THEN "none" ELSE h_fail
    /\ h_failListed' = IF reset /\ h_failListed # "retried" THEN "none"
                       ELSE h_failListed
    /\ UNCHANGED <<h_nosrc, h_reads, h_tickHandles, h_handles, h_pend, h_call>>
    /\ NotATick

----------------------------------------------------------------------------
(* The host starts or stops an output, or changes scene, and calls         *)
(* on_frontend_event with the event.                                       *)

Lifecycle == {"RECORDING_STARTED", "RECORDING_STOPPED",
              "STREAMING_STARTED", "STREAMING_STOPPED"}

\* lines 260-267: the handler resets the state
EventResets_never(only_active, event) == FALSE
EventResets(only_active, event) == only_active /\ event \in Lifecycle

on_frontend_event(event) ==
    LET reset == EventResets(enable_only_active, event) IN
    /\ silence_duration' = IF reset THEN 0 ELSE silence_duration
    /\ notification_sent' = IF reset THEN FALSE ELSE notification_sent
    /\ UNCHANGED <<phase, lock, duration, noise, tick, volmeter,
                   silence_threshold, plugin_enabled, enable_only_active,
                   enable_windows_notification, enable_obs_source,
                   prev_output_active, image_source_name, media_source_name,
                   video_source_name>>
    /\ h_rsDisp' = IF reset THEN 0 ELSE h_rsDisp
    /\ h_scen' = IF reset THEN -1 ELSE h_scen
    /\ UNCHANGED <<h_epDisp, h_tickDur, h_cmp, h_brk, h_suppTicks, h_watch>>
    /\ h_edge' = IF "edge" \notin h_watch \/ ~enable_only_active THEN h_edge
                 ELSE IF (streaming' \/ recording') # OutputActive
                      THEN IF silence_duration' # 0 \/ notification_sent'
                           THEN "stale"
                           ELSE IF silence_duration > 0 THEN "reset" ELSE "clean"
                 ELSE IF h_edge = "stale" /\ reset THEN "clean" ELSE h_edge
    /\ h_fail' = IF reset /\ h_fail # "retried" THEN "none" ELSE h_fail
    /\ h_failListed' = IF reset /\ (streaming' \/ recording') # OutputActive
                          /\ h_failListed # "retried"
                       THEN "none" ELSE h_failListed
    /\ UNCHANGED <<h_mid, h_nosrc, h_reads, h_tickHandles, h_handles, h_pend,
                   h_call>>
    /\ NotATick

FrontendEvent(event) ==
    /\ phase = "loaded"
    /\ event = "RECORDING_STARTED" => ~recording
    /\ event = "RECORDING_STOPPED" => recording
    /\ event = "STREAMING_STARTED" => ~streaming
    /\ event = "STREAMING_STOPPED" => streaming
    /\ recording' = IF event = "RECORDING_STARTED" THEN TRUE
                    ELSE IF event = "RECORDING_STOPPED" THEN FALSE ELSE recording
    /\ streaming' = IF event = "STREAMING_STARTED" THEN TRUE
                    ELSE IF event = "STREAMING_STOPPED" THEN FALSE ELSE streaming
    /\ UNCHANGED <<timers, meters, visible, inflight>>
    /\ on_frontend_event(event)

----------------------------------------------------------------------------
(* volmeter_callback: the audio thread delivers a peak level through a     *)
(* meter that is attached and has the callback registered.                 *)

MeterLive(m) == m.cb /\ m.att

volmeter_callback(peak) ==
    /\ phase = "loaded"
    /\ \E k \in DOMAIN meters : MeterLive(meters[k])
    /\ noise' = peak
    /\ UNCHANGED <<phase, lock, duration, tick, volmeter, silence_duration,
                   silence_threshold, plugin_enabled, enable_only_active,
                   enable_windows_notification, notification_sent,
                   enable_obs_source, prev_output_active, image_source_name,
                   media_source_name, video_source_name>>
    /\ UNCHANGED hostVars
    /\ UNCHANGED histVars
    /\ UNCHANGED traceVars
    /\ NotATick

----------------------------------------------------------------------------
(* The thread started by send_windows_notification ends, whether the       *)
(* PowerShell call succeeded, failed or timed out (lines 91-129).          *)

send_thread_done(ok) ==
    /\ inflight > 0
    /\ inflight' = inflight - 1
    /\ UNCHANGED progVars
    /\ UNCHANGED <<timers, meters, recording, streaming, visible>>
    /\ UNCHANGED histVars
    /\ h_fail' = IF "failure" \in h_watch /\ ~ok /\ notification_sent
                    /\ h_fail = "none"
                 THEN "failed" ELSE h_fail
    /\ h_failListed' = IF "failure" \in h_watch /\ ~ok /\ notification_sent
                          /\ h_failListed = "none"
                       THEN "failed" ELSE h_failListed
    /\ h_pend' = IF inflight' = 0 THEN {} ELSE h_pend
    /\ UNCHANGED <<h_edge, h_mid, h_nosrc, h_reads, h_tickHandles, h_handles,
                   h_call>>
    /\ NotATick

----------------------------------------------------------------------------
(* event_loop: one poll tick.  The host runs it to completion (it is not   *)
(* re-entrant), so it is one step.  Its inputs are what the host answers:  *)
(*   found      obs_get_source_by_name returned a handle                   *)
(*   created    obs_volmeter_create returned a meter                       *)
(*   attach_ok  obs_volmeter_attach_source returned true                   *)
(*   r1, r2     the values of G.noise at the two reads of line 219; the    *)
(*              audio thread may store a new level before either read once *)
(*              a meter is attached.                                       *)

event_loop(found, created, attach_ok, r1, r2, levels) ==
    LET out == TickOutcome(found, created, attach_ok)
        edge == OutputEdge
        dur0 == IF edge THEN 0 ELSE silence_duration
        sent0 == IF edge THEN FALSE ELSE notification_sent
        attaching == ~lock /\ out \in {"createfail", "attachfail", "eval"}
        \* line 198 is reached
        looked == ~lock /\ out \notin {"inactive", "startup"}
        \* source handles the lookup returned, and g_obs_source_release calls
        acquired == IF looked /\ found THEN 1 ELSE 0
        released == IF looked THEN SourceReleases(out) ELSE 0
        sil == IsSilent(r1, r2)
        dur1 == Accumulate(dur0, tick)
        alert == AtThreshold(dur1, silence_threshold)
        notify == out = "eval" /\ sil /\ alert
                  /\ ShouldNotify(enable_windows_notification, sent0)
        \* the silence predicate on this tick, for a tick that returns early too
        holds == IF out = "eval" THEN sil ELSE IsSilent(noise, noise)
        sample == IF out = "eval" /\ r1 = r2 THEN r1 ELSE 0
    IN
    /\ phase = "loaded"
    /\ timers # <<>>
    \* inputs the tick does not consult are fixed
    /\ (lock \/ out \in {"inactive", "startup"}) => found /\ created /\ attach_ok
    /\ ~found => created /\ attach_ok
    /\ ~created => attach_ok
    /\ created /\ attaching => Len(meters) < MaxMeters
    /\ IF out = "eval" /\ ~lock THEN r1 \in levels \cup {noise} ELSE r1 = noise
    /\ IF out = "eval" /\ ~(r1 <= silence_db_threshold) THEN r2 \in levels \cup {r1} ELSE r2 = r1
    /\ out = "eval" /\ sil => dur1 <= MaxDur
    /\ ~JoinsThread(inflight)
    /\ notify => inflight < PendingCap
    \* lines 172-190
    /\ prev_output_active' = IF enable_only_active THEN OutputActive
                             ELSE prev_output_active
    \* lines 194, 243
    /\ duration' = IF out = "startup" THEN duration + tick_mili ELSE duration
    \* lines 195-217
    /\ lock' = (lock \/ (out = "eval"))
    /\ volmeter' = IF ~attaching THEN volmeter
                   ELSE IF created THEN Len(meters) + 1 ELSE 0
    /\ meters' = IF attaching /\ created
                 THEN Append(meters, NewMeter(attach_ok)) ELSE meters
    \* lines 219-241
    /\ noise' = IF out = "eval" THEN r2 ELSE noise
    /\ silence_duration' = IF out # "eval" THEN dur0
                           ELSE IF sil THEN dur1 ELSE SoundReset(dur0)
    /\ notification_sent' = IF out # "eval" THEN sent0
                            ELSE IF sil THEN (sent0 \/ notify) ELSE FALSE
    /\ inflight' = IF notify THEN inflight + 1 ELSE inflight
    /\ visible' = IF out # "eval" \/ ~enable_obs_source THEN visible
                  ELSE IF ~sil THEN enable_source(FALSE, visible)
                  ELSE IF alert THEN enable_source(TRUE, visible)
                  ELSE visible
    /\ UNCHANGED <<phase, tick, silence_threshold, plugin_enabled,
                   enable_only_active, enable_windows_notification,
                   enable_obs_source, image_source_name, media_source_name,
                   video_source_name>>
    /\ UNCHANGED <<timers, recording, streaming>>
    /\ h_epDisp' = IF "episode" \notin h_watch THEN h_epDisp
                   ELSE IF holds THEN Min(h_epDisp + (IF notify THEN 1 ELSE 0), 2)
                   ELSE 0
    /\ h_rsDisp' = IF out = "eval" /\ ~sil THEN 0
                   ELSE Min((IF edge THEN 0 ELSE h_rsDisp) + (IF notify THEN 1 ELSE 0), 2)
    /\ h_tickDur' = IF "window" \notin h_watch THEN h_tickDur
                    ELSE IF out # "eval" THEN -1
                    ELSE IF sil THEN dur1 ELSE -2
    /\ h_cmp' = IF "window" \notin h_watch THEN h_cmp
                ELSE IF ~(out = "eval" /\ sil /\ h_tickDur >= 0) THEN "none"
                ELSE IF dur1 > h_tickDur THEN "up"
                ELSE IF dur1 = h_tickDur THEN "same" ELSE "down"
    /\ h_brk' = IF "window" \notin h_watch THEN h_brk
                ELSE edge \/ (h_tickDur >= 0 /\ silence_duration # h_tickDur)
    /\ h_suppTicks' = IF "suppressed" \notin h_watch THEN h_suppTicks
                      ELSE IF h_suppTicks >= 0 /\ enable_only_active /\ ~OutputActive
                      THEN Min(h_suppTicks + 1, 2) ELSE -1
    /\ h_scen' = IF h_scen >= 0 /\ h_scen < Len(Scenario)
                    /\ sample = Scenario[h_scen + 1]
                 THEN h_scen + 1 ELSE -1
    /\ UNCHANGED h_watch
    /\ h_edge' = IF h_edge # "stale" THEN h_edge
                 ELSE IF edge THEN "clean" ELSE "counted"
    /\ h_fail' = IF h_fail \notin {"failed", "kept"} THEN h_fail
                 ELSE IF edge \/ (out = "eval" /\ ~sil) THEN "none"
                 ELSE IF notify THEN "retried"
                 ELSE IF out = "eval" THEN "kept" ELSE h_fail
    /\ h_failListed' = IF h_failListed \notin {"failed", "kept"} THEN h_failListed
                       ELSE IF edge \/ (out = "eval" /\ ~sil) THEN "none"
                       ELSE IF notify THEN "retried"
                       ELSE IF out = "eval" THEN "kept" ELSE h_failListed
    /\ h_out' = IF "outcome" \in h_watch THEN out ELSE "none"
    /\ h_lookup' = IF "outcome" \notin h_watch \/ ~looked THEN "none"
                   ELSE IF found THEN "found" ELSE "missing"
    /\ h_nosrc' = IF "outcome" \in h_watch /\ looked /\ ~found
                  THEN Min(h_nosrc + 1, 2) ELSE h_nosrc
    /\ h_pend' = IF "pending" \notin h_watch \/ inflight = 0 THEN h_pend
                 ELSE h_pend
                      \cup (IF out = "eval" /\ sil THEN {"accumulate"} ELSE {})
                      \cup (IF out = "eval" /\ ~sil THEN {"reset"} ELSE {})
                      \cup (IF notify THEN {"dispatch"} ELSE {})
    /\ h_reads' = IF "reads" \in h_watch /\ out = "eval"
                  THEN <<r1, r2, sil, noise>> ELSE h_reads
    /\ h_tickHandles' = IF "handles" \in h_watch THEN <<acquired, released>>
                        ELSE h_tickHandles
    /\ h_handles' = IF "handles" \in h_watch
                    THEN h_handles + acquired - released ELSE h_handles
    /\ UNCHANGED <<h_mid, h_call>>

----------------------------------------------------------------------------
(* script_unload.  Removing the callback of, and destroying, a meter that  *)
(* was already destroyed is undefined: the host may survive it or crash.   *)

script_unload ==
    /\ phase = "loaded"
    /\ timers' = timer_remove(timers)
    /\ IF volmeter # 0
       THEN /\ meters' = [meters EXCEPT ![volmeter] = DestroyMeter(@)]
            /\ phase' \in IF meters[volmeter].destroys > 0
                          THEN {"unloaded", "crashed"} ELSE {"unloaded"}
       ELSE /\ meters' = meters
            /\ phase' = "unloaded"
    /\ UNCHANGED <<lock, duration, noise, tick, volmeter, silence_duration,
                   silence_threshold, plugin_enabled, enable_only_active,
                   enable_windows_notification, notification_sent,
                   enable_obs_source, prev_output_active, image_source_name,
                   media_source_name, video_source_name>>
    /\ UNCHANGED <<recording, streaming, visible, inflight>>
    /\ UNCHANGED histVars
    /\ UNCHANGED traceVars
    /\ NotATick

----------------------------------------------------------------------------

Tick(levels) ==
    \E found, created, attach_ok \in BOOLEAN :
        \E r1, r2 \in levels \cup {NegInf} :
            event_loop(found, created, attach_ok, r1, r2, levels)

Step(settings, levels) ==
    \/ script_load
    \/ \E s \in settings : script_update(s)
    \/ \E e \in Events : FrontendEvent(e)
    \/ \E peak \in levels : volmeter_callback(peak)
    \/ Tick(levels)
    \/ \E ok \in BOOLEAN : send_thread_done(ok)
    \/ script_unload

Next == Step(Settings, Noise)

Spec == Init /\ [][Next]_vars

(* The same program, recording one more history.                           *)
InitEpisode == InitWatching({"episode"})
SpecEpisode == InitEpisode /\ [][Next]_vars

InitWindow == InitWatching({"window"})
SpecWindow == InitWindow /\ [][Next]_vars

InitSuppressed == InitWatching({"suppressed"})
SpecSuppressed == InitSuppressed /\ [][Next]_vars

InitFailure == InitWatching({"failure"})
SpecFailure == InitFailure /\ [][Next]_vars

InitOutcome == InitWatching({"outcome"})
SpecOutcome == InitOutcome /\ [][Next]_vars

(* set_visible_all on its own: called with any source name and value on    *)
(* any scene collection, any number of times.                              *)
set_visible_all_call(source_name, v) ==
    /\ visible' = set_visible_all(source_name, v, visible)
    /\ h_call' = <<source_name, v, visible>>
    /\ UNCHANGED progVars
    /\ UNCHANGED <<timers, meters, recording, streaming, inflight>>
    /\ UNCHANGED histVars
    /\ UNCHANGED <<h_edge, h_mid, h_fail, h_failListed, h_nosrc, h_reads,
                   h_tickHandles, h_handles, h_pend>>
    /\ NotATick

NextToggle == \E source_name \in SourceNames, v \in BOOLEAN :
                  set_visible_all_call(source_name, v)
InitToggle == InitWith({}, SceneCollections)
SpecToggle == InitToggle /\ [][NextToggle]_vars

(* The program with the visual alert among its settings.                  *)
VisualNoise == {-61, -10}
NextVisual == Step(VisualSettings, VisualNoise)
SpecVisual == InitOutcome /\ [][NextVisual]_vars

(* The program with the notification on, fed sound and silence.           *)
PendingSettings == SettingsOf({NoCombined}, {FALSE}, {0}, {10}, {TRUE})
PendingNoise == {NegInf, -10}
NextPending == Step(PendingSettings, PendingNoise)
InitPending == InitWatching({"pending", "outcome"})
SpecPending == InitPending /\ [][NextPending]_vars

InitReads == InitWatching({"reads"})
SpecReads == InitReads /\ [][Next]_vars

InitHandles == InitWatching({"outcome", "handles"})
SpecHandles == InitHandles /\ [][Next]_vars

InitEdge == InitWatching({"edge"})
SpecEdge == InitEdge /\ [][Next]_vars

(* The program fed the levels of the sample scenario, under settings that  *)
(* keep the defaults of the interval (10 s) and of the threshold (30 s).   *)
ScenarioSettingsSet == SettingsOf({NoCombined}, {FALSE}, {0}, {0}, BOOLEAN)
NextScenario == Step(ScenarioSettingsSet, ScenarioNoise)
InitScenario == InitWatching({"scenario"})
SpecScenario == InitScenario /\ [][NextScenario]_vars

----------------------------------------------------------------------------
(* Steps, as action formulas.                                              *)

TickStep == Tick(Noise)

UpdateStep == \E s \in Settings : script_update(s)

\* a notification thread was started in this step
Dispatched == inflight' = inflight + 1

----------------------------------------------------------------------------
(* C1.  As stated: in every run, at most one notification is dispatched    *)
(* within one silence episode (a maximal span of ticks on which the        *)
(* silence predicate holds).                                               *)
C1_OncePerEpisode == h_epDisp <= 1

(* C1, amended: at most one notification is dispatched between two         *)
(* consecutive resets of the one-shot flag (sound resumed, active-flag     *)
(* edge, lifecycle event, reconfiguration); a notification is dispatched   *)
(* only by a tick that leaves silence_duration >= silence_threshold.       *)
C1_OncePerReset ==
    /\ [](h_rsDisp <= 1)
    /\ [][Dispatched => /\ silence_duration' >= silence_threshold
                        /\ notification_sent'
                        /\ h_rsDisp' = 1]_vars

\* the flag was set and silent ticks went on without a second dispatch
C1_Witness ==
    /\ h_rsDisp = 1
    /\ h_epDisp = 1
    /\ silence_duration >= silence_threshold + 10

(* C2.  notification_sent implies silence_duration >= silence_threshold in *)
(* every reachable state; a step that lowers silence_duration clears the   *)
(* flag (it is set afterwards only by a dispatch of that same step), and a *)
(* step that clears the flag restarts silence_duration from 0.             *)
C2_SentImpliesThreshold ==
    /\ [](notification_sent => silence_duration >= silence_threshold)
    /\ [][/\ silence_duration' < silence_duration =>
                (notification_sent' => Dispatched)
          /\ notification_sent /\ ~notification_sent' =>
                silence_duration' \in {0, Accumulate(0, tick)}]_vars

\* the flag is set under the 10 s threshold, polled every 5 s
C2_Witness ==
    /\ notification_sent
    /\ silence_threshold = 10
    /\ tick = 5000
    /\ silence_duration = 15

(* C3.  As stated: across consecutive ticks that each observe a silent     *)
(* sample, silence_duration never decreases from one tick to the next; and *)
(* after a tick that observes a non-silent sample it is exactly 0.         *)
C3_Monotone ==
    /\ h_cmp # "down"
    /\ h_tickDur = -2 => silence_duration = 0

(* C3, amended: the same, for consecutive silent ticks with no reset in    *)
(* between (no lifecycle event and no configuration update cleared the     *)
(* counter) and no active-flag edge on the later tick.                     *)
C3_MonotoneNoReset ==
    /\ ~h_brk => h_cmp # "down"
    /\ h_tickDur = -2 => silence_duration = 0

\* two silent ticks in a row have accumulated, no reset between them
C3_Witness ==
    /\ h_cmp = "up"
    /\ h_tickDur >= 20
    /\ ~h_brk
    /\ silence_duration = h_tickDur

C5_NoAccumulationWhileInactive ==
    /\ [](h_suppTicks >= 0 => silence_duration = 0 /\ ~notification_sent)
    /\ [][h_suppTicks' >= 0 => ~Dispatched]_vars

\* two suppressed ticks have run on a silent level
C5_Witness ==
    /\ h_suppTicks = 2
    /\ enable_only_active
    /\ IsSilent(noise, noise)
    /\ silence_duration = 0

(* C6.  After script_unload every meter created in the run has been        *)
(* destroyed exactly once and has no callback registered, and the poll     *)
(* timer is removed.                                                       *)
C6_UnloadDestroysOnce ==
    phase \in {"unloaded", "crashed"} =>
        /\ \A k \in DOMAIN meters :
               meters[k].destroys = 1 /\ ~meters[k].cb
        /\ timers = <<>>

(* C7.  As stated: after a script_update that changes plugin_enabled or    *)
(* enable_only_active, silence_duration = 0, notification_sent = false and *)
(* prev_output_active = false.                                             *)
FlagsDiffer ==
    \/ plugin_enabled' # plugin_enabled
    \/ enable_only_active' # enable_only_active

C7_FullReset ==
    [][FlagsDiffer => /\ silence_duration' = 0
                      /\ ~notification_sent'
                      /\ ~prev_output_active']_vars

(* C7, amended: after such an update silence_duration = 0 and              *)
(* notification_sent = false; prev_output_active = false if the plugin is  *)
(* now enabled, and keeps its value if it is now disabled.                 *)
C7_ResetOnFlagChange ==
    [][FlagsDiffer => /\ silence_duration' = 0
                      /\ ~notification_sent'
                      /\ prev_output_active' =
                            (~plugin_enabled' /\ prev_output_active)]_vars

\* the plugin was disabled while prev_output_active was set
C7_Witness ==
    /\ phase = "loaded"
    /\ ~plugin_enabled
    /\ prev_output_active
    /\ silence_duration = 0

(* C8.  After every script_update at most one poll schedule is registered: *)
(* exactly one, at the new interval and with silence_duration = 0 and      *)
(* notification_sent = false, if the plugin is now enabled, none if not.   *)
C8_OneSchedule ==
    /\ [](phase \in {"new", "loaded"} =>
             timers = IF plugin_enabled THEN <<tick>> ELSE <<>>)
    /\ [][UpdateStep =>
             /\ timers' = IF plugin_enabled' THEN <<tick'>> ELSE <<>>
             /\ plugin_enabled' =>
                    silence_duration' = 0 /\ ~notification_sent']_vars

\* an update rescheduled an attached monitor at the 5 s interval
C8_Witness ==
    /\ phase = "loaded"
    /\ lock
    /\ timers = <<5000>>
    /\ silence_threshold = 10
    /\ silence_duration = 0
    /\ noise = -10

(* C9.  A script_update that disables the plugin tears metering down:      *)
(* afterwards no callback is registered, every meter is destroyed and      *)
(* attached (G.lock) is false.                                             *)
C9_DisableTearsDown ==
    [][plugin_enabled /\ ~plugin_enabled' =>
          /\ ~lock'
          /\ timers' = <<>>
          /\ \A k \in DOMAIN meters' :
                 ~meters'[k].cb /\ meters'[k].destroys >= 1]_vars

(* C10.  attached (G.lock) goes from false to true once per enable cycle:  *)
(* it is false when a script_update starts a cycle, within a cycle it      *)
(* never goes back to false, and a tick that runs while attached creates   *)
(* no meter and attaches nothing.                                          *)
C10_AttachOncePerCycle ==
    [][/\ ~plugin_enabled /\ plugin_enabled' => ~lock'
       /\ lock /\ plugin_enabled /\ plugin_enabled' => lock'
       /\ lock /\ TickStep => /\ lock'
                              /\ meters' = meters
                              /\ volmeter' = volmeter]_vars

C12_NoRetryUntilListedReset ==
    /\ [](h_failListed # "retried")
    /\ [][inflight' < inflight =>
              UNCHANGED <<progVars, timers, meters, visible>>]_vars

(* C12, amended: the same, with the lifecycle events handled under "only   *)
(* while active" counted as resets too, whether or not the active flag     *)
(* changes; until such a reset the flag stays set, and a tick that         *)
(* dispatches after it has accumulated anew to the threshold.              *)
C12_FailureChangesNothing ==
    /\ [](h_fail # "retried")
    /\ [](h_fail \in {"failed", "kept"} =>
             notification_sent /\ silence_duration >= silence_threshold)
    /\ [][inflight' < inflight =>
              UNCHANGED <<progVars, timers, meters, recording, streaming,
                          visible>>]_vars
    /\ [][Dispatched /\ h_fail \in {"failed", "kept"} =>
              /\ h_fail' = "none"
              /\ silence_duration' = Accumulate(0, tick)
              /\ silence_duration' >= silence_threshold]_vars

\* the dispatch failed and a later silent tick of the episode dispatched nothing
C12_Witness ==
    /\ h_fail = "kept"
    /\ inflight = 0
    /\ notification_sent
    /\ silence_duration > silence_threshold

(* C13.  A tick on which obs_volmeter_create or obs_volmeter_attach_source *)
(* fails leaves: the meter it created (if any) destroyed once and without  *)
(* callback, no live meter, G.lock false, silence_duration and             *)
(* notification_sent as the only-active edge handling left them, nothing   *)
(* dispatched, no visibility changed, and the next tick past the startup   *)
(* delay again; the tick that sets G.lock leaves exactly one live meter,   *)
(* the one G.volmeter names, whatever failures came before.                *)
LiveMeters(ms) == {k \in DOMAIN ms : MeterLive(ms[k])}

C13_FailedAttachRollsBack ==
    /\ [][h_out' \in {"createfail", "attachfail"} =>
              /\ ~lock'
              /\ LiveMeters(meters') = {}
              /\ h_out' = "createfail" => meters' = meters /\ volmeter' = 0
              /\ h_out' = "attachfail" =>
                     /\ Len(meters') = Len(meters) + 1
                     /\ meters'[Len(meters')].destroys = 1
                     /\ ~meters'[Len(meters')].cb
              /\ silence_duration' = (IF OutputEdge THEN 0 ELSE silence_duration)
              /\ notification_sent' = (~OutputEdge /\ notification_sent)
              /\ ~Dispatched
              /\ visible' = visible
              /\ PastStartDelay(duration')]_vars
    /\ [][~lock /\ h_out' = "eval" => lock']_vars
    /\ [][~lock /\ lock' => /\ h_out' = "eval"
                            /\ LiveMeters(meters') = {volmeter'}]_vars

\* an attach failed, its meter was destroyed, and the retry attached
C13_Witness ==
    /\ lock
    /\ h_out = "eval"
    /\ Len(meters) = 2
    /\ meters[1].destroys = 1
    /\ LiveMeters(meters) = {2}
    /\ volmeter = 2

(* C14.  A tick past the startup delay whose lookup of the microphone      *)
(* source returns nothing creates no meter, leaves G.volmeter and G.lock   *)
(* (false) alone, accumulates and dispatches nothing and changes no        *)
(* visibility; the script stays loaded with its timer, so the lookup is    *)
(* made again by the next tick, and the first tick that finds the source,  *)
(* creates the meter and attaches it sets G.lock.                          *)
C14_MissingSourceAborts ==
    /\ [][h_lookup' = "missing" =>
              /\ h_out' = "nosource"
              /\ meters' = meters
              /\ volmeter' = volmeter
              /\ ~lock /\ ~lock'
              /\ silence_duration' = (IF OutputEdge THEN 0 ELSE silence_duration)
              /\ notification_sent' = (~OutputEdge /\ notification_sent)
              /\ ~Dispatched
              /\ visible' = visible
              /\ noise' = noise
              /\ phase' = "loaded"
              /\ timers' = timers
              /\ PastStartDelay(duration')]_vars
    /\ [][h_lookup' = "found" /\ h_out' = "eval" => ~lock /\ lock']_vars
    /\ [](h_nosrc > 0 /\ ~lock => LiveMeters(meters) = {})

\* two ticks missed the source, then one found it and attached
C14_Witness ==
    /\ h_nosrc = 2
    /\ h_lookup = "found"
    /\ h_out = "eval"
    /\ lock
    /\ Len(meters) = 1
    /\ LiveMeters(meters) = {1}

(* C15.  With enable_obs_source set and an alert source configured, a tick *)
(* that evaluates the level leaves every item of that source: visible, if  *)
(* it found silence and silence_duration >= silence_threshold after the    *)
(* increment, whether or not the notification was sent before; hidden, if  *)
(* it found sound; as it was, if it found silence below the threshold.  No *)
(* item of another source changes.                                         *)
AlertItems == {it \in SceneItems : it[2] = AlertSourceName}

C15_VisualAlertFollowsSilence ==
    [][h_out' = "eval" /\ enable_obs_source /\ AlertSourceName # "" =>
          /\ silence_duration' >= silence_threshold =>
                 \A it \in AlertItems : visible'[it]
          /\ silence_duration' = 0 =>
                 \A it \in AlertItems : ~visible'[it]
          /\ silence_duration' > 0 /\ silence_duration' < silence_threshold =>
                 visible' = visible
          /\ \A it \in SceneItems \ AlertItems : visible'[it] = visible[it]]_vars

\* a silent tick after the one that sent the notification: shown in both scenes
C15_Witness ==
    /\ h_out = "eval"
    /\ enable_obs_source
    /\ AlertItems = {<<1, "Alert">>, <<3, "Alert">>}
    /\ notification_sent
    /\ silence_duration > silence_threshold
    /\ \A it \in AlertItems : visible[it]

(* C16.  After set_visible_all(v) for a source name, on any scene          *)
(* collection: every item of that source has visible = v, every other item *)
(* keeps its flag, the collection has the same items, also when no scene   *)
(* holds the source; and a second call with the same arguments changes     *)
(* nothing.                                                                *)
C16_ToggleIdempotent ==
    /\ [](h_call # <<>> =>
             /\ DOMAIN visible = DOMAIN h_call[3]
             /\ \A it \in DOMAIN visible :
                    visible[it] = IF it[2] = h_call[1] THEN h_call[2]
                                  ELSE h_call[3][it]
             /\ set_visible_all(h_call[1], h_call[2], visible) = visible)
    /\ [][h_call # <<>> /\ h_call'[1] = h_call[1] /\ h_call'[2] = h_call[2] =>
              visible' = visible]_vars

\* called twice in a row to show a source that two of three scenes hold,
\* one of which had it hidden
C16_Witness ==
    /\ h_call = <<"Alert", TRUE, visible>>
    /\ DOMAIN visible = SceneItems
    /\ visible[<<1, "Alert">>] /\ visible[<<3, "Alert">>]
    /\ ~visible[<<1, "Cam">>] /\ visible[<<2, "Cam">>]

(* C17.  The tick that dispatches leaves notification_sent set and the     *)
(* thread running; while threads are running a tick is still enabled       *)
(* (within the bounds of the model), no tick ends a thread, and ticks      *)
(* accumulate, reset and dispatch as they do when none is running.         *)
C17_TickNeverWaits ==
    /\ [][Dispatched => notification_sent' /\ inflight' > 0]_vars
    /\ [][h_out' # "none" => inflight' >= inflight]_vars
    /\ [](/\ phase = "loaded" /\ timers # <<>>
          /\ inflight > 0 /\ inflight < PendingCap
          /\ Accumulate(silence_duration, tick) <= MaxDur
          => ENABLED Tick(PendingNoise))

\* while the first thread was still running, ticks accumulated, reset on
\* sound, and dispatched a second notification
C17_Witness ==
    /\ inflight = 2
    /\ h_pend = {"accumulate", "reset", "dispatch"}
    /\ notification_sent

(* C18.  A tick within the startup delay adds the configured poll          *)
(* interval, in seconds, to G.duration and does nothing else: no lookup,   *)
(* no meter, no attach, no accumulation, no dispatch, no visibility        *)
(* change; the other ticks that get past the only-active test run with     *)
(* G.duration above the delay.                                             *)
C18_StartupTickOnlyCounts ==
    /\ [][h_out' = "startup" =>
              /\ ~PastStartDelay(duration)
              /\ duration' = duration + tick \div 1000
              /\ h_lookup' = "none"
              /\ meters' = meters /\ volmeter' = volmeter /\ lock' = lock
              /\ silence_duration' = silence_duration
              /\ notification_sent' = notification_sent
              /\ ~Dispatched
              /\ visible' = visible]_vars
    /\ [][h_out' \in {"eval", "nosource", "createfail", "attachfail"} =>
              PastStartDelay(duration) /\ duration' = duration]_vars

(* C19.  A tick whose reads of G.noise return one level classifies it as   *)
(* silent if and only if the level is <= the silence dB threshold or is    *)
(* negative infinity, for every level: either infinity and finite levels   *)
(* on both sides of the threshold.                                         *)
C19_SilentIffBelowOrNegInf ==
    h_reads # <<>> /\ h_reads[1] = h_reads[2] =>
        (h_reads[3] <=> (h_reads[1] <= silence_db_threshold
                         \/ h_reads[1] = NegInf))

(* C20.  A tick whose lookup returned a source handle releases it exactly  *)
(* once before it returns, whether the meter could not be created, the     *)
(* attach failed or it succeeded; a tick whose lookup returned nothing, or *)
(* that made no lookup, releases nothing; so after every tick as many      *)
(* handles have been released as acquired.                                 *)
C20_HandlesBalanced ==
    /\ h_handles = 0
    /\ h_lookup = "found" => /\ h_tickHandles = <<1, 1>>
                             /\ h_out \in {"createfail", "attachfail", "eval"}
    /\ h_lookup = "missing" => h_tickHandles = <<0, 0>>
    /\ h_lookup = "none" /\ h_out # "none" => h_tickHandles = <<0, 0>>

\* the source was missing, then the attach failed, then it succeeded
C20_Witness ==
    /\ h_nosrc > 0
    /\ Len(meters) = 2
    /\ meters[1].destroys = 1
    /\ h_lookup = "found"
    /\ h_out = "eval"
    /\ h_tickHandles = <<1, 1>>
    /\ h_handles = 0

(* C21.  The silent / not-silent decision of a tick equals the silence     *)
(* predicate of line 219 applied to one value that G.noise held during the *)
(* tick: the value it had when the tick began or one of the two values the *)
(* tick read, whatever the audio thread wrote in between.                  *)
HeldDuringTick == {h_reads[4], h_reads[1], h_reads[2]}

C21_DecisionOfOneValue ==
    h_reads # <<>> =>
        \E x \in HeldDuringTick : h_reads[3] = IsSilent(x, x)

(* C21, for ticks on which G.noise never held +inf: there the decision is  *)
(* the predicate of one value held (it is torn only through math.isinf).   *)
C21_DecisionOfOneFiniteValue ==
    h_reads # <<>> /\ PosInf \notin HeldDuringTick =>
        \E x \in HeldDuringTick : h_reads[3] = IsSilent(x, x)

====
